---------------------------- MODULE Spec2Model ----------------------------
(***************************************************************************)
(* A model of alert_ollama_bridge.py: the diagnosis parser                 *)
(* (parse_ollama_instructions and its heuristic fallback), the manifest    *)
(* patch engine (find_containers_in_manifest, apply_manifest_changes), the *)
(* change-proposal publisher (create_fix_pr) and the webhook handler       *)
(* (handle_alert).                                                         *)
(*                                                                         *)
(* JSON / YAML values are tagged records, one field name per Python type:  *)
(*   [str |-> s]   a str, s a sequence of text atoms                       *)
(*   [num |-> n]   an int                                                  *)
(*   [bool |-> b]  True / False                                            *)
(*   [null |-> TRUE]  None                                                 *)
(*   [list |-> l]  a list, l a sequence of values                          *)
(*   [map |-> f]   a dict, f a function from key strings to values         *)
(* A str is a sequence of atoms (text fragments that are concatenated);    *)
(* ":" and " " are always atoms of their own, so that substring tests on   *)
(* them are tests on atoms.                                                *)
(***************************************************************************)
EXTENDS Integers, Sequences, FiniteSets, TLC

VARIABLES
    \* apply_manifest_changes
    yaml_content,           \* the documents of the input YAML text
    target_manifest_name,   \* the optional target name (NoTarget: not given)
    opPool,                 \* the ChangeOps the caller's `changes` list is drawn from
    manifests,              \* the parsed documents, mutated in place
    sel,                    \* index of the selected manifest (0: none yet)
    container_path,         \* the path find_containers_in_manifest returned
    changes,                \* the ChangeOps iterated so far
    trail,                  \* per iterated op: resolved index, container before/after
    apc,                    \* position: "call", "loop", "done", "raised"
    exc,                    \* the exception that left apply_manifest_changes
    updated_yaml,           \* the documents of the returned YAML text
    \* parse_ollama_instructions
    ollama_response,        \* the argument: a narrative text, or a value that is no str
    instructions,           \* the value returned
    ppc,                    \* position: "call", "returned", "raised"
    \* the versioned store (GitHub repository)
    repo_files,             \* manifest path -> documents of the file on the base branch
    refs,                   \* the fix branches: [name, by]
    pulls,                  \* the review requests, newest first: [head, url, open, by]
    writes,                 \* the writes each execution made to the store, in order
    clock,                  \* datetime.now() in seconds
    \* create_fix_pr, one execution per process
    cpc,                    \* position of each execution: "idle", "check", "branch",
                            \* "commit", "pull", "returned", "raised"
    pod_name,               \* argument pod_name
    pr_instructions,        \* argument instructions
    branch_name,            \* local branch_name
    pr_url,                 \* the value returned
    began_after,            \* the executions that had returned when this one began
    pulls_seen,             \* the URLs repo.get_pulls listed to a check that found none
    \* handle_alert
    hpc,                    \* position of the handler
    alerts,                 \* data.get("alerts", [])
    rca,                    \* local rca
    validation_result,      \* local validation_result
    http_response           \* the response returned (None: none yet)

patchVars == <<yaml_content, target_manifest_name, opPool, manifests, sel,
               container_path, changes, trail, apc, exc, updated_yaml>>

parseVars == <<ollama_response, instructions, ppc>>

storeVars == <<repo_files, refs, pulls, writes, clock>>

prVars == <<cpc, pod_name, pr_instructions, branch_name, pr_url, began_after,
           pulls_seen>>

handlerVars == <<hpc, alerts, rca, validation_result, http_response>>

vars == <<patchVars, parseVars, storeVars, prVars, handlerVars>>

-----------------------------------------------------------------------------
(* Bounds of the model *)

MaxDocs == 2          \* documents in a YAML text
MaxContainers == 2    \* containers in a container list
MaxOps == 2           \* ChangeOps in one `changes` list
MaxSegs == 3          \* segments in a narrative text
MaxProcs == 2         \* executions of create_fix_pr
MaxClock == 2         \* the last second of the clock

-----------------------------------------------------------------------------
(* Python values *)

Str(s) == [str |-> s]
Num(n) == [num |-> n]
Bool(b) == [bool |-> b]
None == [null |-> TRUE]
List(l) == [list |-> l]
Map(f) == [map |-> f]
EmptyDict == [map |-> <<>>]

\* A key a dict does not hold (never a value a program variable holds).
Absent == [absent |-> TRUE]

IsStr(v) == DOMAIN v = {"str"}
IsNum(v) == DOMAIN v = {"num"}
IsBool(v) == DOMAIN v = {"bool"}
IsNone(v) == DOMAIN v = {"null"}
IsList(v) == DOMAIN v = {"list"}
IsDict(v) == DOMAIN v = {"map"}

\* key in d, d[key], d.get(key, default) and d[key] = v for a dict d
HasKey(d, k) == k \in DOMAIN d.map
Item(d, k) == d.map[k]
Get(d, k, default) == IF HasKey(d, k) THEN Item(d, k) ELSE default
SetItem(d, k, v) ==
    Map([j \in (DOMAIN d.map) \cup {k} |-> IF j = k THEN v ELSE d.map[j]])

\* bool(v): Python truthiness
Truthy(v) ==
    CASE IsStr(v) -> Len(v.str) > 0
      [] IsNum(v) -> v.num # 0
      [] IsBool(v) -> v.bool
      [] IsNone(v) -> FALSE
      [] IsList(v) -> Len(v.list) > 0
      [] IsDict(v) -> DOMAIN v.map # {}

\* sub in s for a one-atom substring
HasAtom(s, a) == \E i \in 1..Len(s) : s[i] = a

\* str(v) / the f-string rendering of v: a str renders as itself, every
\* other value as its repr (a dict's repr holds ": " between key and value).
Repr(v) ==
    CASE IsStr(v) -> v.str
      [] IsNum(v) -> <<"<int>">>
      [] IsBool(v) -> IF v.bool THEN <<"True">> ELSE <<"False">>
      [] IsNone(v) -> <<"None">>
      [] IsList(v) -> IF Len(v.list) = 0 THEN <<"[]">> ELSE <<"[", "<items>", "]">>
      [] IsDict(v) -> IF DOMAIN v.map = {} THEN <<"{}">>
                      ELSE <<"{", "<key>", ":", " ", "<value>", "}">>

NGINX_LATEST == <<"nginx", ":", "latest">>

-----------------------------------------------------------------------------
(* validate_image_exists: the format checks that precede the registry call *)

Colons(s) == {i \in 1..Len(s) : s[i] = ":"}

\* Returns TRUE when the format checks pass (the registry verdict aside).
image_format_valid(image_name) ==
    /\ IsStr(image_name)
    /\ Len(image_name.str) > 0                      \* not image_name
    /\ Cardinality(Colons(image_name.str)) = 1      \* ":" in it, len(parts) == 2
    /\ \A i \in Colons(image_name.str) :            \* image_repo and tag non-empty
           i > 1 /\ i < Len(image_name.str)
    /\ ~HasAtom(image_name.str, " ")                \* no whitespace

-----------------------------------------------------------------------------
(* Manifest documents.  A document is a dict; of its content the model     *)
(* keeps the kind, metadata.name and what sits at the end of each of the   *)
(* three container paths (Absent when a key on the way is missing).        *)

TmplPath == <<"spec", "template", "spec", "containers">>
PodPath == <<"spec", "containers">>
CronPath == <<"spec", "jobTemplate", "spec", "template", "spec", "containers">>

\* The field of a document record that holds what `path` leads to.
FieldOf(path) ==
    CASE path = TmplPath -> "tmpl"
      [] path = PodPath -> "pod"
      [] path = CronPath -> "cron"

\* str.lower() on the strings of the inputs (kinds, words of a narrative)
lower(kind) ==
    CASE kind = "Deployment" -> "deployment"
      [] kind = "DaemonSet" -> "daemonset"
      [] kind = "StatefulSet" -> "statefulset"
      [] kind = "ReplicaSet" -> "replicaset"
      [] kind = "Pod" -> "pod"
      [] kind = "Job" -> "job"
      [] kind = "CronJob" -> "cronjob"
      [] kind = "Service" -> "service"
      [] kind = "ErrImagePull" -> "errimagepull"
      [] kind = "Readiness probe failed" -> "readiness probe failed"
      [] kind = "Liveness probe failed" -> "liveness probe failed"
      [] kind = "NGINX" -> "nginx"
      [] OTHER -> kind

container_paths ==
    [deployment |-> TmplPath, daemonset |-> TmplPath, statefulset |-> TmplPath,
     replicaset |-> TmplPath, pod |-> PodPath, job |-> TmplPath,
     cronjob |-> CronPath]

fallback_paths == <<TmplPath, PodPath, CronPath>>

\* The loop `for key in path: containers = containers.get(key, {}); if not
\* containers: break`: the value at the end of the path, or {} when a key is
\* missing on the way.
walk(manifest, path) ==
    IF manifest[FieldOf(path)] = Absent THEN EmptyDict ELSE manifest[FieldOf(path)]

\* (None, None); the model writes the absent path as the empty sequence.
NotFound == [containers |-> None, path |-> <<>>]

find_containers_in_manifest(manifest) ==
    LET kind == lower(manifest.kind)
        viaKind ==
            /\ kind \in DOMAIN container_paths
            /\ IsList(walk(manifest, container_paths[kind]))
        hits == {i \in 1..Len(fallback_paths) :
                    /\ IsList(walk(manifest, fallback_paths[i]))
                    /\ Truthy(walk(manifest, fallback_paths[i]))}
        first == CHOOSE i \in hits : \A j \in hits : i <= j
    IN  IF viaKind
        THEN [containers |-> walk(manifest, container_paths[kind]),
              path |-> container_paths[kind]]
        ELSE IF hits # {}
        THEN [containers |-> walk(manifest, fallback_paths[first]),
              path |-> fallback_paths[first]]
        ELSE NotFound

-----------------------------------------------------------------------------
(* apply_manifest_changes: one ChangeOp *)

DigitAtoms == {"0", "1", "2", "3", "4", "5", "6", "7", "8", "9"}

\* "sup2" is the character SUPERSCRIPT TWO: str.isdigit() accepts it and
\* int() refuses it with ValueError.
isdigit(s) == Len(s) > 0 /\ \A i \in 1..Len(s) : s[i] \in DigitAtoms \cup {"sup2"}

IntParses(s) == \A i \in 1..Len(s) : s[i] \in DigitAtoms

DigitValue(a) ==
    CASE a = "0" -> 0 [] a = "1" -> 1 [] a = "2" -> 2 [] a = "3" -> 3
      [] a = "4" -> 4 [] a = "5" -> 5 [] a = "6" -> 6 [] a = "7" -> 7
      [] a = "8" -> 8 [] a = "9" -> 9

RECURSIVE int(_)
int(s) ==
    IF Len(s) = 0 THEN 0
    ELSE 10 * int(SubSeq(s, 1, Len(s) - 1)) + DigitValue(s[Len(s)])

\* path[0] for a truthy path: the first element of a list, the first
\* character of a str; a dict from JSON has no key 0 (KeyError); an int or a
\* bool is not subscriptable (TypeError).
path_first(path) ==
    CASE IsList(path) -> [exc |-> "none", v |-> path.list[1]]
      [] IsStr(path) -> [exc |-> "none", v |-> Str(<<path.str[1]>>)]
      [] IsDict(path) -> [exc |-> "KeyError", v |-> None]
      [] OTHER -> [exc |-> "TypeError", v |-> None]

\* try: container_idx = int(path[0]) if path and path[0].isdigit() else 0
\* except (ValueError, IndexError): container_idx = 0
index_from_path(path) ==
    IF ~Truthy(path) THEN [exc |-> "none", idx |-> 0]
    ELSE LET f == path_first(path) IN
         IF f.exc # "none" THEN [exc |-> f.exc, idx |-> 0]
         ELSE IF ~IsStr(f.v) THEN [exc |-> "AttributeError", idx |-> 0]
         ELSE IF ~isdigit(f.v.str) THEN [exc |-> "none", idx |-> 0]
         ELSE IF ~IntParses(f.v.str) THEN [exc |-> "none", idx |-> 0]
         ELSE [exc |-> "none", idx |-> int(f.v.str)]

\* The range check written with > for >=.
clamp_index_off_by_one(idx, n) == IF idx > n THEN 0 ELSE idx

\* if container_idx >= len(containers): container_idx = 0
clamp_index(idx, n) == IF idx >= n THEN 0 ELSE idx

\* The coercion with a default for a missing repository or tag, as
\* parse_ollama_instructions builds it.
image_from_dict_defaulting(value) ==
    IF HasKey(value, "image") THEN Item(value, "image")
    ELSE IF HasKey(value, "name") THEN Item(value, "name")
    ELSE Str(Repr(Get(value, "repository", Get(value, "repo", Str(<<"nginx">>))))
             \o <<":">> \o Repr(Get(value, "tag", Str(<<"latest">>))))

\* The update_image coercion of a dict value, then the final validation.
image_from_dict(value) ==
    IF HasKey(value, "image") THEN Item(value, "image")
    ELSE IF HasKey(value, "name") THEN Item(value, "name")
    ELSE IF HasKey(value, "repository") /\ HasKey(value, "tag")
    THEN Str(Repr(Item(value, "repository")) \o <<":">> \o Repr(Item(value, "tag")))
    ELSE IF HasKey(value, "repo") /\ HasKey(value, "tag")
    THEN Str(Repr(Item(value, "repo")) \o <<":">> \o Repr(Item(value, "tag")))
    ELSE Str(NGINX_LATEST)

image_final(value) ==
    IF ~IsStr(value) \/ ~HasAtom(value.str, ":") THEN Str(NGINX_LATEST) ELSE value

patched_image(value) ==
    image_final(IF IsDict(value) THEN image_from_dict(value) ELSE value)

\* update_command / update_args: the value as a list
as_list(value) ==
    IF IsStr(value) THEN List(<<value>>)
    ELSE IF IsList(value) THEN value
    ELSE List(<<Str(Repr(value))>>)

\* The body of the branch on change_type: the container after the op, or the
\* exception the branch raises.
apply_type(container, change_type, value) ==
    LET ok(c) == [exc |-> "none", container |-> c] IN
    CASE change_type = Str(<<"update_image">>) ->
            ok([container EXCEPT !.image = patched_image(value)])
      [] change_type = Str(<<"update_command">>) ->
            ok([container EXCEPT !.command = as_list(value)])
      [] change_type = Str(<<"update_args">>) ->
            ok([container EXCEPT !.args = as_list(value)])
      [] change_type = Str(<<"update_readiness_probe">>) ->
            IF IsDict(value) THEN ok([container EXCEPT !.readinessProbe = value])
            ELSE ok(container)
      [] change_type = Str(<<"update_liveness_probe">>) ->
            IF IsDict(value) THEN ok([container EXCEPT !.livenessProbe = value])
            ELSE ok(container)
      [] change_type = Str(<<"add_env_var">>) ->
            LET c1 == IF container.env = Absent
                      THEN [container EXCEPT !.env = List(<<>>)] ELSE container
            IN  IF IsDict(value) /\ HasKey(value, "name") /\ HasKey(value, "value")
                THEN IF IsList(c1.env)
                     THEN ok([c1 EXCEPT !.env = List(Append(c1.env.list, value))])
                     ELSE [exc |-> "AttributeError", container |-> c1]
                ELSE ok(c1)
      [] change_type = Str(<<"update_ports">>) ->
            IF IsList(value) THEN ok([container EXCEPT !.ports = value])
            ELSE ok(container)
      [] OTHER -> ok(container)

\* One iteration of `for i, change in enumerate(changes)` over the located
\* container list: [exc, containers, idx, before, after].
apply_change(containers, change) ==
    LET n == Len(containers)
        fail(e) == [exc |-> e, containers |-> containers, idx |-> -1,
                    before |-> None, after |-> None]
    IN  IF ~IsDict(change) THEN fail("AttributeError")   \* change.get
        ELSE
        LET r == index_from_path(Get(change, "path", List(<<Str(<<"0">>)>>)))
            idx == clamp_index(r.idx, n)
        IN  IF r.exc # "none" THEN fail(r.exc)
            ELSE IF idx \notin 0..(n - 1) THEN fail("IndexError")  \* containers[idx]
            ELSE
            LET a == apply_type(containers[idx + 1], Get(change, "type", None),
                                Get(change, "value", None))
            IN  [exc |-> a.exc,
                 containers |-> [containers EXCEPT ![idx + 1] = a.container],
                 idx |-> idx,
                 before |-> containers[idx + 1],
                 after |-> a.container]

-----------------------------------------------------------------------------
(* Inputs of apply_manifest_changes *)

NoTarget == "<none>"

BaseContainer(i) ==
    [name |-> Str(<<"c", ToString(i)>>), image |-> Str(<<"old", ":", "1">>),
     command |-> Absent, args |-> Absent, readinessProbe |-> Absent,
     livenessProbe |-> Absent, ports |-> Absent,
     env |-> IF i = 2 THEN List(<<>>) ELSE Absent]

ContainerList(n) == List([i \in 1..n |-> BaseContainer(i)])

Doc(kind, name, tmpl, pod, cron) ==
    [kind |-> kind, name |-> name, tmpl |-> tmpl, pod |-> pod, cron |-> cron]

Full == ContainerList(MaxContainers)
Empty == ContainerList(0)

\* The documents of the inputs, under the name nm: each recognized shape with
\* its list where the kind's path leads, with an empty list there, with the
\* list under another path, and without containers; a kind that is not in the
\* table (Service) with and without a container list.
Docs(nm) ==
    { Doc("Deployment", nm, Full, Absent, Absent),
      Doc("Deployment", nm, Empty, Absent, Absent),
      Doc("Deployment", nm, Absent, Full, Absent),
      Doc("Deployment", nm, Empty, Full, Absent),
      Doc("Deployment", nm, Absent, Absent, Absent),
      Doc("Pod", nm, Absent, Full, Absent),
      Doc("Pod", nm, Absent, Empty, Absent),
      Doc("Pod", nm, Full, Absent, Absent),
      Doc("CronJob", nm, Absent, Absent, Full),
      Doc("CronJob", nm, Full, Absent, Empty),
      Doc("Service", nm, Absent, Absent, Absent),
      Doc("Service", nm, Full, Absent, Absent),
      Doc("Service", nm, Absent, Absent, Full) }

\* YAML texts of 0..MaxDocs documents; the first document is named "a".
RECURSIVE DocSeqs(_)
DocSeqs(n) ==
    IF n = 0 THEN {<<>>}
    ELSE IF n = 1 THEN {<<d>> : d \in Docs("a")}
    ELSE {Append(ds, d) : ds \in DocSeqs(n - 1), d \in Docs("a") \cup Docs("b")}

\* The YAML texts of up to `most` documents.
AllYaml(most) == UNION {DocSeqs(n) : n \in 0..most}

\* One Deployment with 1..MaxContainers containers.
PatchYaml ==
    {<<Doc("Deployment", "a", ContainerList(n), Absent, Absent)>> : n \in 1..MaxContainers}

\* A ChangeOp dict; Absent leaves the key out.
Op(type, path, value) ==
    LET keys == (IF type = Absent THEN {} ELSE {"type"})
                \cup (IF path = Absent THEN {} ELSE {"path"})
                \cup (IF value = Absent THEN {} ELSE {"value"})
    IN  Map([k \in keys |-> CASE k = "type" -> type
                              [] k = "path" -> path
                              [] k = "value" -> value])

T(name) == Str(<<name>>)
P(token) == List(<<Str(token)>>)

GoodImage == Str(<<"nginx", ":", "1.21">>)

ImageValues ==
    { GoodImage,
      Str(<<"nginx">>),                                  \* no tag
      Str(<<"nginx", ":">>),                             \* empty tag
      Str(<<"host", ":", "5000/app", ":", "1">>),        \* two colons
      Map([image |-> GoodImage]),
      Map([image |-> Num(5)]),
      Map([image |-> Str(<<"nginx">>), name |-> GoodImage]),
      Map([name |-> Str(<<"httpd", ":", "2.4">>)]),
      Map([repository |-> Str(<<"nginx">>), tag |-> Str(<<"1.21">>)]),
      Map([repo |-> Str(<<"nginx">>), tag |-> Num(5)]),
      Map([repository |-> Str(<<"nginx">>)]),
      Map([tag |-> Str(<<"1.21">>)]),
      Map([newRepository |-> Str(<<"nginx">>), newTag |-> Str(<<"1.21">>)]),
      EmptyDict,
      Absent }

SleepCommand == Str(<<"sleep infinity">>)

Probe == Map([httpGet |-> Map([path |-> Str(<<"/health">>)])])

EnvVar == Map([name |-> Str(<<"MODE">>), value |-> Str(<<"prod">>)])

PathValues ==
    { Absent, P(<<"0">>), P(<<"1">>), P(<<"5">>), P(<<"1", "0">>), P(<<"x">>),
      P(<<>>), P(<<"sup2">>), List(<<>>), List(<<Num(1)>>), Str(<<"1", "0">>),
      Num(1), None, Map([k |-> Str(<<"0">>)]) }

P0 == P(<<"0">>)

\* Ops that vary the value under every type, ops that vary the path, ops of
\* an unknown or missing type and ops that are no dict.
ValueOps ==
    {Op(T("update_image"), P0, v) : v \in ImageValues}
    \cup {Op(T("update_command"), P0, v) :
            v \in {List(<<Str(<<"nginx">>), Str(<<"-g">>)>>), Num(5)}}
    \cup {Op(T("update_args"), P0, v) : v \in {SleepCommand, Absent}}
    \cup {Op(T(t), P0, v) : t \in {"update_readiness_probe", "update_liveness_probe"},
                            v \in {Probe, Str(<<"/health">>)}}
    \cup {Op(T("add_env_var"), P(<<"1">>), v) : v \in {EnvVar, Str(<<"MODE=prod">>)}}
    \cup {Op(T("add_env_var"), P0, v) : v \in {EnvVar, Map([name |-> Str(<<"MODE">>)])}}
    \cup {Op(T("update_ports"), P0, v) :
            v \in {List(<<Map([containerPort |-> Num(8080)])>>), Num(8080)}}

PathOps == {Op(T("update_command"), p, SleepCommand) : p \in PathValues}

OddOps ==
    { Op(T("restart_pod"), P0, GoodImage), Op(Absent, P0, GoodImage),
      Str(<<"update_image">>), None }

AllOps == ValueOps \cup PathOps \cup OddOps

FewOps ==
    { Op(T("update_image"), P(<<"1">>), GoodImage),
      Op(T("add_env_var"), P0, EnvVar) }

-----------------------------------------------------------------------------
(* Narrative texts.  A text is a str written as a sequence of segments:    *)
(*   [w |-> word]      a fragment of prose without braces or fences        *)
(*   [mark |-> m]      "{", "}", "fence_open" (```json and its newline),   *)
(*                     "fence_close" (newline and ```)                     *)
(*   [json |-> v, style |-> st]  the rendering of the JSON value v; style  *)
(*                     "py" is the Python-like rendering (single quotes,   *)
(*                     True / False / None, trailing commas) that          *)
(*                     json.loads refuses and clean_json_string repairs.   *)
(* The rendering of a dict starts with "{" and ends with "}"; the values   *)
(* rendered at the top level of a text are dicts or hold no dict.          *)

Text(segs) == [text |-> segs]
IsText(v) == DOMAIN v = {"text"}

W(word) == [w |-> word]
Mk(m) == [mark |-> m]
J(v) == [json |-> v, style |-> "json"]
Jpy(v) == [json |-> v, style |-> "py"]

IsWord(seg) == DOMAIN seg = {"w"}
IsMark(seg, m) == DOMAIN seg = {"mark"} /\ seg.mark = m
IsJson(seg) == DOMAIN seg = {"json", "style"}

Min(S) == CHOOSE i \in S : \A j \in S : i <= j
Max(S) == CHOOSE i \in S : \A j \in S : i >= j

\* str.strip(): whitespace fragments at both ends go.
RECURSIVE strip(_)
strip(segs) ==
    IF Len(segs) > 0 /\ segs[1] = W(" ") THEN strip(Tail(segs))
    ELSE IF Len(segs) > 0 /\ segs[Len(segs)] = W(" ")
    THEN strip(SubSeq(segs, 1, Len(segs) - 1))
    ELSE segs

\* Strategy 1: re.findall(r'```json\s*\n(.*?)\n```', text, re.DOTALL)[0].strip(),
\* the empty sequence when nothing matches.
fenced_block(segs) ==
    LET closes(a) == {j \in (a + 1)..Len(segs) : IsMark(segs[j], "fence_close")}
        opens == {i \in 1..Len(segs) : IsMark(segs[i], "fence_open") /\ closes(i) # {}}
    IN  IF opens = {} THEN <<>>
        ELSE strip(SubSeq(segs, Min(opens) + 1, Min(closes(Min(opens))) - 1))

OpensBrace(seg) == IsMark(seg, "{") \/ (IsJson(seg) /\ IsDict(seg.json))
ClosesBrace(seg) == IsMark(seg, "}") \/ (IsJson(seg) /\ IsDict(seg.json))

\* Strategy 2: text[text.find('{') : text.rfind('}') + 1] when both are found
\* and the last "}" comes after the first "{"; else the empty sequence.
brace_region(segs) ==
    LET opens == {i \in 1..Len(segs) : OpensBrace(segs[i])}
        closes == {i \in 1..Len(segs) : ClosesBrace(segs[i])}
    IN  IF opens # {} /\ closes # {} /\ Min(opens) <= Max(closes)
        THEN SubSeq(segs, Min(opens), Max(closes))
        ELSE <<>>

\* clean_json_string: strip, then the regexes that turn the Python-like
\* rendering into JSON.
clean_json_string(json_str) ==
    LET t == strip(json_str)
    IN  [i \in 1..Len(t) |-> IF IsJson(t[i]) THEN J(t[i].json) ELSE t[i]]

\* json.loads: the text of one JSON value, or "{" "}".
json_loads(json_str) ==
    IF Len(json_str) = 1 /\ IsJson(json_str[1]) /\ json_str[1].style = "json"
    THEN [exc |-> "none", ret |-> json_str[1].json]
    ELSE IF json_str = <<Mk("{"), Mk("}")>>
    THEN [exc |-> "none", ret |-> EmptyDict]
    ELSE [exc |-> "JSONDecodeError", ret |-> None]

-----------------------------------------------------------------------------
(* Heuristic extraction *)

\* The keywords of the code that occur in a lower-cased fragment: the
\* fragment itself and, for the fragments listed, the keywords inside it.
Substrings(fragment) ==
    {fragment} \cup
    CASE fragment = "readiness probe failed" ->
            {"readiness probe", "probe failed", "readiness"}
      [] fragment = "liveness probe failed" ->
            {"liveness probe", "probe failed", "liveness"}
      [] fragment = "readiness_probe_failure" -> {"readiness"}
      [] fragment = "liveness_probe_failure" -> {"liveness"}
      [] fragment = "sleep infinity" -> {"sleep"}
      [] OTHER -> {}

\* The fragments of the strings inside a JSON value (keys hold no keyword).
RECURSIVE FragmentsOf(_)
FragmentsOf(v) ==
    CASE IsStr(v) -> {v.str[i] : i \in 1..Len(v.str)}
      [] IsList(v) -> UNION {FragmentsOf(v.list[i]) : i \in 1..Len(v.list)}
      [] IsDict(v) -> UNION {FragmentsOf(v.map[k]) : k \in DOMAIN v.map}
      [] OTHER -> {}

\* text.lower() as the set of its lower-cased fragments.
lowered(text) ==
    UNION {IF IsWord(text.text[i]) THEN {lower(text.text[i].w)}
           ELSE IF IsJson(text.text[i])
           THEN {lower(f) : f \in FragmentsOf(text.text[i].json)}
           ELSE {} : i \in 1..Len(text.text)}

\* any(keyword in text_lower for keyword in keywords)
any_in(keywords, text_lower) ==
    \E f \in text_lower : Substrings(f) \cap keywords # {}

problem_patterns ==
    << [type |-> "image_pull_backoff",
        keywords |-> {"imagepullbackoff", "image pull", "pull backoff",
                      "errimagepull", "image not found", "pull error",
                      "repository does not exist", "manifest unknown",
                      "unauthorized", "image pull failed"}],
       [type |-> "readiness_probe_failure",
        keywords |-> {"readiness probe", "readiness check", "ready probe",
                      "/health", "health check", "probe failed", "readiness"}],
       [type |-> "liveness_probe_failure",
        keywords |-> {"liveness probe", "liveness check", "live probe", "liveness"}],
       [type |-> "command_failure",
        keywords |-> {"command failed", "command error", "exec error",
                      "entrypoint", "exit code", "crashed", "container exited",
                      "command not found"}] >>

\* A loop without the break: the last matching category stays.
detect_last_problem_type(text_lower) ==
    LET hits == {i \in 1..Len(problem_patterns) :
                    any_in(problem_patterns[i].keywords, text_lower)}
    IN  IF hits = {} THEN "other" ELSE problem_patterns[Max(hits)].type

\* The loop over problem_patterns.items() with its break.
detect_problem_type(text_lower) ==
    LET hits == {i \in 1..Len(problem_patterns) :
                    any_in(problem_patterns[i].keywords, text_lower)}
    IN  IF hits = {} THEN "other" ELSE problem_patterns[Min(hits)].type

\* A suggestion that ignores the text.
suggest_default_image(text) == Str(NGINX_LATEST)

extract_suggested_image_from_text(text) ==
    LET text_lower == lowered(text) IN
    IF any_in({"nginx", "web server"}, text_lower) THEN Str(<<"nginx", ":", "1.21">>)
    ELSE IF any_in({"apache", "httpd"}, text_lower) THEN Str(<<"httpd", ":", "2.4">>)
    ELSE IF any_in({"python", "flask", "django"}, text_lower)
    THEN Str(<<"python", ":", "3.9-slim">>)
    ELSE IF any_in({"node", "nodejs", "npm"}, text_lower)
    THEN Str(<<"node", ":", "16-alpine">>)
    ELSE IF any_in({"java", "openjdk"}, text_lower)
    THEN Str(<<"openjdk", ":", "11-jre-slim">>)
    ELSE Str(NGINX_LATEST)

StrList(words) == List([i \in 1..Len(words) |-> Str(<<words[i]>>)])

extract_command_from_text(text) ==
    LET text_lower == lowered(text) IN
    IF any_in({"sleep"}, text_lower) THEN StrList(<<"/bin/sh", "-c", "sleep infinity">>)
    ELSE IF any_in({"nginx"}, text_lower) THEN StrList(<<"nginx", "-g", "daemon off;">>)
    ELSE IF any_in({"apache"}, text_lower) \/ any_in({"httpd"}, text_lower)
    THEN StrList(<<"httpd-foreground">>)
    ELSE IF any_in({"python"}, text_lower)
    THEN StrList(<<"python", "-c", "import time; time.sleep(3600)">>)
    ELSE IF any_in({"node"}, text_lower)
    THEN StrList(<<"node", "-e", "setInterval(() => console.log('alive'), 10000)">>)
    ELSE StrList(<<"/bin/sh", "-c",
                   "echo 'Command extraction failed - manual review needed'">>)

\* The dict the fallback builds for a detected type.
fallback_dict(detected_type, text) ==
    LET base == [problem_type |-> Str(<<detected_type>>),
                 problem_analysis |-> Str(<<"Fallback analysis - JSON parsing failed">>),
                 validation_required |-> Bool(FALSE),
                 changes |-> List(<<>>),
                 expected_impact |-> Str(<<"Manual review required">>),
                 requires_pr |-> Bool(FALSE)]
        suggested_image == extract_suggested_image_from_text(text)
    IN  IF detected_type = "image_pull_backoff"
        THEN Map([problem_type |-> base.problem_type,
                  problem_analysis |-> base.problem_analysis,
                  validation_required |-> Bool(TRUE),
                  validation_type |-> Str(<<"image_check">>),
                  validation_data |-> Map([image |-> suggested_image]),
                  changes |-> List(<<Map(
                      [type |-> Str(<<"update_image">>),
                       path |-> List(<<Str(<<"0">>)>>),
                       value |-> suggested_image,
                       description |-> Str(<<"Replace failing image with working ">>
                                           \o suggested_image.str)])>>),
                  expected_impact |-> Str(<<"Pod should pull image successfully">>),
                  requires_pr |-> Bool(TRUE)])
        ELSE IF detected_type = "command_failure"
        THEN Map([base EXCEPT
                  !.changes = List(<<Map(
                      [type |-> Str(<<"update_command">>),
                       path |-> List(<<Str(<<"0">>)>>),
                       value |-> extract_command_from_text(text),
                       description |->
                           Str(<<"Fix container command to prevent exit">>)])>>),
                  !.requires_pr = Bool(TRUE),
                  !.expected_impact = Str(<<"Container should start and stay running">>)])
        ELSE Map(base)

\* The try block of extract_fallback_instructions: ollama_response.lower()
\* exists on a str alone.
fallback_try(response) ==
    IF ~IsText(response) THEN [exc |-> "AttributeError", ret |-> None]
    ELSE [exc |-> "none",
          ret |-> fallback_dict(detect_problem_type(lowered(response)), response)]

\* The fallback without its except clause.
extract_fallback_unguarded(response) == fallback_try(response)

\* try: ... except Exception: return None
extract_fallback_instructions(response) ==
    IF fallback_try(response).exc = "none" THEN fallback_try(response)
    ELSE [exc |-> "none", ret |-> None]

-----------------------------------------------------------------------------
(* parse_ollama_instructions *)

\* 'changes' in instructions, for a truthy instructions
has_changes(ins) ==
    CASE IsDict(ins) -> [exc |-> "none", ret |-> HasKey(ins, "changes")]
      [] IsList(ins) -> [exc |-> "none",
                         ret |-> \E i \in 1..Len(ins.list) : ins.list[i] = Str(<<"changes">>)]
      [] IsStr(ins) -> [exc |-> "none", ret |-> HasAtom(ins.str, "changes")]
      [] OTHER -> [exc |-> "TypeError", ret |-> FALSE]     \* int, bool: not iterable

\* The update_image repair of one change of the parsed plan.
parsed_image_from_dict(image_value) ==
    IF HasKey(image_value, "image") THEN Item(image_value, "image")
    ELSE IF HasKey(image_value, "name") THEN Item(image_value, "name")
    ELSE Str(Repr(Get(image_value, "repository",
                      Get(image_value, "repo", Str(<<"nginx">>))))
             \o <<":">> \o Repr(Get(image_value, "tag", Str(<<"latest">>))))

\* The body of `for change in instructions['changes']` for one change.
fix_change(change) ==
    IF ~IsDict(change) THEN [exc |-> "AttributeError", ret |-> change]   \* change.get
    ELSE IF Get(change, "type", None) # Str(<<"update_image">>)
    THEN [exc |-> "none", ret |-> change]
    ELSE LET image_value == Get(change, "value", None)
             c1 == IF IsDict(image_value)
                   THEN SetItem(change, "value", parsed_image_from_dict(image_value))
                   ELSE change
         IN  IF ~HasKey(c1, "value") THEN [exc |-> "KeyError", ret |-> c1]
             ELSE IF IsStr(Item(c1, "value")) /\ HasAtom(Item(c1, "value").str, ":")
             THEN [exc |-> "none", ret |-> c1]
             ELSE [exc |-> "none", ret |-> SetItem(c1, "value", Str(NGINX_LATEST))]

\* What iterating `changes` yields: the elements of a list, the keys of a
\* dict, the characters of a str; other values are not iterable.
iterate(v) ==
    CASE IsList(v) -> [exc |-> "none", ret |-> v.list]
      [] IsDict(v) -> [exc |-> "none",
                       ret |-> IF DOMAIN v.map = {} THEN <<>> ELSE <<Str(<<"<key>">>)>>]
      [] IsStr(v) -> [exc |-> "none",
                      ret |-> [i \in 1..Len(v.str) |-> Str(<<v.str[i]>>)]]
      [] OTHER -> [exc |-> "TypeError", ret |-> <<>>]

\* Lines 186-209 on a parsed value: the value with its update_image changes
\* repaired, or the first exception.
validate_and_fix(ins) ==
    IF ~Truthy(ins) THEN [exc |-> "none", ret |-> ins]
    ELSE IF has_changes(ins).exc # "none" THEN [exc |-> has_changes(ins).exc, ret |-> ins]
    ELSE IF ~has_changes(ins).ret THEN [exc |-> "none", ret |-> ins]
    ELSE IF ~IsDict(ins) THEN [exc |-> "TypeError", ret |-> ins]   \* ins['changes']
    ELSE LET it == iterate(Item(ins, "changes"))
             fixed == [i \in 1..Len(it.ret) |-> fix_change(it.ret[i])]
             bad == {i \in 1..Len(it.ret) : fixed[i].exc # "none"}
         IN  IF it.exc # "none" THEN [exc |-> it.exc, ret |-> ins]
             ELSE IF bad # {} THEN [exc |-> fixed[Min(bad)].exc, ret |-> ins]
             ELSE IF ~IsList(Item(ins, "changes")) THEN [exc |-> "none", ret |-> ins]
             ELSE [exc |-> "none",
                   ret |-> SetItem(ins, "changes",
                                   List([i \in 1..Len(it.ret) |-> fixed[i].ret]))]

\* The try block of parse_ollama_instructions.
parse_try(response) ==
    IF ~IsText(response) THEN [exc |-> "TypeError", ret |-> None]   \* re.findall
    ELSE
    LET fenced == fenced_block(response.text)
        json_str == IF fenced # <<>> THEN fenced ELSE brace_region(response.text)
        parsed == json_loads(clean_json_string(json_str))
    IN  IF json_str = <<>> THEN extract_fallback_instructions(response)
        ELSE IF parsed.exc # "none" THEN parsed
        ELSE validate_and_fix(parsed.ret)

\* Both except clauses return extract_fallback_instructions(ollama_response).
parse_ollama_instructions(response) ==
    IF parse_try(response).exc = "none" THEN parse_try(response)
    ELSE extract_fallback_instructions(response)

validate_instructions_structure(ins) ==
    /\ IsDict(ins)
    /\ \A field \in {"problem_type", "requires_pr"} : HasKey(ins, field)

-----------------------------------------------------------------------------
(* Inputs of parse_ollama_instructions *)

ImageOp(value) == Op(T("update_image"), P(<<"0">>), value)

Plan(problem_type, ops) ==
    Map([problem_type |-> Str(<<problem_type>>), requires_pr |-> Bool(TRUE),
         changes |-> List(ops)])

JsonValues ==
    { Plan("image_pull_backoff", <<ImageOp(Str(<<"nginx", ":", "1.21">>))>>),
      Plan("image_pull_backoff", <<ImageOp(Map([repository |-> Str(<<"httpd">>)]))>>),
      Plan("command_failure", <<ImageOp(Absent)>>),
      Plan("liveness_probe_failure", <<Str(<<"update_image">>)>>),
      Map([problem_type |-> Str(<<"other">>), requires_pr |-> Bool(TRUE),
           changes |-> Num(5)]),
      Map([changes |-> List(<<>>)]),
      Map([requires_pr |-> Bool(FALSE)]),
      List(<<Num(1)>>), None, Num(5), Str(<<"changes">>) }

Words ==
    {"ErrImagePull", "Readiness probe failed", "Liveness probe failed", "exit code",
     "nginx", "httpd", "hello"}

\* The segments texts of any shape are made of.
Segments ==
    {W(w) : w \in Words \ {"Readiness probe failed", "Liveness probe failed"}}
    \cup {Mk(m) : m \in {"{", "}", "fence_open", "fence_close"}}
    \cup {J(Map([requires_pr |-> Bool(FALSE)])), J(List(<<Num(1)>>)),
          Jpy(Map([requires_pr |-> Bool(FALSE)]))}

\* Every JSON value alone, in a fenced block, and next to prose.
JsonTexts ==
    UNION { { Text(<<J(v)>>),
              Text(<<Mk("fence_open"), J(v), Mk("fence_close")>>),
              Text(<<W("ErrImagePull"), J(v)>>),
              Text(<<J(v), W("exit code")>>) } : v \in JsonValues }

RECURSIVE SegSeqs(_)
SegSeqs(n) ==
    IF n = 0 THEN {<<>>}
    ELSE {Append(t, sg) : t \in SegSeqs(n - 1), sg \in Segments}

\* The texts of up to `most` segments, the texts around one JSON value, the
\* prose of one word and of two, and two values that are no str.
Responses(most) ==
    {Text(t) : t \in UNION {SegSeqs(n) : n \in 0..most}}
    \cup JsonTexts
    \cup {Text(<<W(w)>>) : w \in Words}
    \cup {Text(<<W(v), W(w)>>) : v, w \in Words}
    \cup {None, Num(5)}

-----------------------------------------------------------------------------
(* apply_manifest_changes as a process *)

\* The first document whatever the target name.
select_first(docs, target) == 1

\* The manifest the patch is applied to: the first whose metadata.name is the
\* target name, or the first manifest when no name is given; 0 when the named
\* one is absent.
select_manifest(docs, target) ==
    IF target = NoTarget THEN 1
    ELSE LET named == {i \in 1..Len(docs) : docs[i].name = target}
         IN  IF named = {} THEN 0 ELSE CHOOSE i \in named : \A j \in named : i <= j

\* A dump of the first document alone.
safe_dump_first(docs) == <<docs[1]>>

\* yaml.safe_dump_all(manifests): every document, in order.
safe_dump_all(docs) == docs

\* The loop over `changes` on the located container list, up to the first
\* exception.
RECURSIVE apply_changes(_, _)
apply_changes(containers, ops) ==
    IF ops = <<>> THEN [exc |-> "none", containers |-> containers]
    ELSE LET r == apply_change(containers, ops[1])
         IN  IF r.exc # "none" THEN [exc |-> r.exc, containers |-> r.containers]
             ELSE apply_changes(r.containers, Tail(ops))

\* apply_manifest_changes as a function of its arguments: the documents of
\* the returned text, or the exception raised.
apply_manifest_changes(content, ops, target) ==
    LET s == IF Len(content) = 0 THEN 0 ELSE select_manifest(content, target)
        found == IF s = 0 THEN NotFound ELSE find_containers_in_manifest(content[s])
        field == FieldOf(found.path)
        r == apply_changes(content[s][field].list, ops)
    IN  IF s = 0 \/ ~Truthy(found.containers)
        THEN [exc |-> "ValueError", ret |-> <<>>]
        ELSE IF r.exc # "none" THEN [exc |-> r.exc, ret |-> <<>>]
        ELSE [exc |-> "none",
              ret |-> safe_dump_all([content EXCEPT ![s][field] = List(r.containers)])]

PatchRaise(e) ==
    /\ apc' = "raised"
    /\ exc' = e

\* Lines 405-431: load, select, locate.
PatchCall ==
    /\ apc = "call"
    /\ manifests' = yaml_content
    /\ LET s == IF Len(yaml_content) = 0 THEN 0
                ELSE select_manifest(yaml_content, target_manifest_name)
           found == IF s = 0 THEN NotFound
                    ELSE find_containers_in_manifest(yaml_content[s])
       IN  IF s = 0 \/ ~Truthy(found.containers)
           THEN /\ PatchRaise("ValueError")
                /\ UNCHANGED <<sel, container_path>>
           ELSE /\ sel' = s
                /\ container_path' = found.path
                /\ apc' = "loop"
                /\ UNCHANGED exc
    /\ UNCHANGED <<yaml_content, target_manifest_name, opPool, changes, trail,
                   updated_yaml>>
    /\ UNCHANGED <<parseVars, storeVars, prVars, handlerVars>>

\* Lines 433-555: the next ChangeOp of the caller's list.
PatchChange ==
    /\ apc = "loop"
    /\ Len(changes) < MaxOps
    /\ \E change \in opPool :
         LET field == FieldOf(container_path)
             r == apply_change(manifests[sel][field].list, change)
         IN  /\ changes' = Append(changes, change)
             /\ trail' = Append(trail, [idx |-> r.idx, before |-> r.before,
                                        after |-> r.after, exc |-> r.exc])
             /\ manifests' = [manifests EXCEPT ![sel][field] = List(r.containers)]
             /\ IF r.exc # "none" THEN PatchRaise(r.exc)
                ELSE UNCHANGED <<apc, exc>>
    /\ UNCHANGED <<yaml_content, target_manifest_name, opPool, sel,
                   container_path, updated_yaml>>
    /\ UNCHANGED <<parseVars, storeVars, prVars, handlerVars>>

\* Lines 557-561: the list is exhausted; dump and return.
PatchReturn ==
    /\ apc = "loop"
    /\ updated_yaml' = safe_dump_all(manifests)
    /\ apc' = "done"
    /\ UNCHANGED <<yaml_content, target_manifest_name, opPool, manifests, sel,
                   container_path, changes, trail, exc>>
    /\ UNCHANGED <<parseVars, storeVars, prVars, handlerVars>>

\* One call of parse_ollama_instructions.
ParseCall ==
    /\ ppc = "call"
    /\ LET r == parse_ollama_instructions(ollama_response)
       IN  IF r.exc = "none"
           THEN ppc' = "returned" /\ instructions' = r.ret
           ELSE ppc' = "raised" /\ UNCHANGED instructions
    /\ UNCHANGED ollama_response
    /\ UNCHANGED <<patchVars, storeVars, prVars, handlerVars>>

-----------------------------------------------------------------------------
(* create_fix_pr against the versioned store *)

Procs == 1..MaxProcs

Url(n) == [url |-> n]

\* Pod names and branch names are strs, written as sequences of fragments.
Pods == {<<"api">>, <<"api", "-7f">>}

\* f"fix/{pod_name}"
branch_prefix(pod) == <<"fix/">> \o pod

\* f"{branch_prefix}-{timestamp}"
BranchName(pod, timestamp) == branch_prefix(pod) \o <<"-", timestamp>>

\* str.startswith
startswith(name, prefix) ==
    Len(prefix) <= Len(name) /\ SubSeq(name, 1, Len(prefix)) = prefix

\* A lookup that finds no review request, whatever is open.
pr_never_exists(open_pulls, prefix) == None

\* pr_already_exists on the listing repo.get_pulls(state='open', base=...)
\* returned: the URL of the first one whose head branch starts with prefix.
pr_already_exists(open_pulls, prefix) ==
    LET hits == {i \in 1..Len(open_pulls) : startswith(open_pulls[i].head, prefix)}
    IN  IF hits = {} THEN None ELSE Url(open_pulls[Min(hits)].url)

\* repo.get_pulls(state='open', base=GITHUB_BRANCH): every review request
\* of the model is against the base branch.
RECURSIVE open_only(_)
open_only(pl) ==
    IF pl = <<>> THEN <<>>
    ELSE IF pl[1].open THEN <<pl[1]>> \o open_only(Tail(pl))
    ELSE open_only(Tail(pl))

ManifestPaths ==
    {"app/readiness-fail.yaml", "app/liveness-fail.yaml",
     "app/imagepullbackoff-fail.yaml", "app/commandfail-fail.yaml",
     "app/failing-app.yaml"}

\* manifest_map.get(problem_type, manifest_map["other"]); a list or a dict
\* is unhashable.
get_manifest_path(problem_type) ==
    IF IsList(problem_type) \/ IsDict(problem_type)
    THEN [exc |-> "TypeError", ret |-> ""]
    ELSE [exc |-> "none",
          ret |-> CASE problem_type = Str(<<"readiness_probe_failure">>) ->
                          "app/readiness-fail.yaml"
                    [] problem_type = Str(<<"liveness_probe_failure">>) ->
                          "app/liveness-fail.yaml"
                    [] problem_type = Str(<<"image_pull_backoff">>) ->
                          "app/imagepullbackoff-fail.yaml"
                    [] problem_type = Str(<<"command_failure">>) ->
                          "app/commandfail-fail.yaml"
                    [] OTHER -> "app/failing-app.yaml"]

\* Lines 588-603 once get_repo and get_contents have answered: "check" when
\* the patched content exists, "none" when the call returns None for want
\* of changes, "except" when an exception is raised on the way.
read_and_patch(ins, files) ==
    IF ~IsDict(ins) THEN "except"                          \* instructions.get
    ELSE IF get_manifest_path(Get(ins, "problem_type", Str(<<"other">>))).exc # "none"
    THEN "except"
    ELSE LET path == get_manifest_path(Get(ins, "problem_type", Str(<<"other">>))).ret
             ops == Get(ins, "changes", List(<<>>))
         IN  IF ~Truthy(ops) THEN "none"
             ELSE IF ~IsList(ops) THEN "except"            \* not modelled as ops
             ELSE IF apply_manifest_changes(files[path], ops.list, NoTarget).exc # "none"
             THEN "except"
             ELSE "check"

\* The instructions handed to create_fix_pr.
PrInstructions ==
    { Plan("image_pull_backoff", <<ImageOp(GoodImage)>>),
      Plan("image_pull_backoff", <<>>),
      Plan("other", <<ImageOp(GoodImage)>>) }

Deployment1 == <<Doc("Deployment", "a", ContainerList(1), Absent, Absent)>>

\* The repository: every manifest file a one-container Deployment, but
\* app/failing-app.yaml a Service without containers.
RepoFiles ==
    [path \in ManifestPaths |->
        IF path = "app/failing-app.yaml"
        THEN <<Doc("Service", "a", Absent, Absent, Absent)>>
        ELSE Deployment1]

PrReturn(p, value) ==
    /\ cpc' = [cpc EXCEPT ![p] = "returned"]
    /\ pr_url' = [pr_url EXCEPT ![p] = value]

\* An exception that leaves create_fix_pr.
PrReraise(p) ==
    /\ cpc' = [cpc EXCEPT ![p] = "raised"]
    /\ UNCHANGED pr_url

\* Lines 661-663: except Exception: the error is logged and None returned.
PrExcept(p) == PrReturn(p, None)

\* Lines 580-603 of create_fix_pr(pod, ins, ...): get_repo, get_contents,
\* the `changes` test and the patch.
PrEnter(p, pod, ins) ==
    /\ cpc[p] = "idle"
    /\ pod_name' = [pod_name EXCEPT ![p] = pod]
    /\ pr_instructions' = [pr_instructions EXCEPT ![p] = ins]
    /\ began_after' = [began_after EXCEPT ![p] = {q \in Procs : cpc[q] = "returned"}]
    /\ \E ok \in BOOLEAN :
         IF ~ok \/ read_and_patch(ins, repo_files) = "except" THEN PrExcept(p)
         ELSE IF read_and_patch(ins, repo_files) = "none" THEN PrReturn(p, None)
         ELSE cpc' = [cpc EXCEPT ![p] = "check"] /\ UNCHANGED pr_url
    /\ UNCHANGED <<branch_name, pulls_seen, storeVars>>

\* An invocation of create_fix_pr with some pod and instructions.
PrRead(p) ==
    /\ \E pod \in Pods, ins \in PrInstructions : PrEnter(p, pod, ins)
    /\ UNCHANGED <<patchVars, parseVars, handlerVars>>

\* Lines 605-610: the existence check.
PrCheck(p) ==
    /\ cpc[p] = "check"
    /\ \E ok \in BOOLEAN :
         LET existing_pr_url ==
                 pr_already_exists(open_only(pulls), branch_prefix(pod_name[p]))
             open_urls == {pulls[i].url : i \in {j \in 1..Len(pulls) : pulls[j].open}}
         IN  IF ~ok THEN PrExcept(p) /\ UNCHANGED pulls_seen
             ELSE IF existing_pr_url # None
             THEN PrReturn(p, existing_pr_url) /\ UNCHANGED pulls_seen
             ELSE /\ cpc' = [cpc EXCEPT ![p] = "branch"]
                  /\ pulls_seen' = [pulls_seen EXCEPT ![p] = open_urls]
                  /\ UNCHANGED pr_url
    /\ UNCHANGED <<pod_name, pr_instructions, branch_name, began_after,
                   storeVars, patchVars, parseVars, handlerVars>>

\* Lines 612-616: the branch name, get_branch and create_git_ref, which the
\* store refuses for a name that exists.
PrBranch(p) ==
    /\ cpc[p] = "branch"
    /\ \E ok \in BOOLEAN :
         LET name == BranchName(pod_name[p], clock)
         IN  IF ok /\ \A r \in refs : r.name # name
             THEN /\ refs' = refs \cup {[name |-> name, by |-> p]}
                  /\ writes' = [writes EXCEPT ![p] = Append(@,
                                    [op |-> "create_git_ref", branch |-> name])]
                  /\ branch_name' = [branch_name EXCEPT ![p] = name]
                  /\ cpc' = [cpc EXCEPT ![p] = "commit"]
                  /\ UNCHANGED pr_url
             ELSE /\ PrExcept(p)
                  /\ UNCHANGED <<refs, writes, branch_name>>
    /\ UNCHANGED <<pod_name, pr_instructions, began_after, pulls_seen,
                   repo_files, pulls, clock, patchVars, parseVars, handlerVars>>

\* GITHUB_BRANCH, the base branch; repo_files is its content.
GITHUB_BRANCH == <<"main">>

\* A commit that goes to the base branch.
commit_to_base(p) == GITHUB_BRANCH

\* Line 647: branch=branch_name, the branch update_file commits to.
commit_branch(p) == branch_name[p]

\* contents.path and fixed_content of an execution that has passed line 603.
manifest_path(p) ==
    get_manifest_path(Get(pr_instructions[p], "problem_type", Str(<<"other">>))).ret

fixed_content(p) ==
    apply_manifest_changes(repo_files[manifest_path(p)],
                           Item(pr_instructions[p], "changes").list, NoTarget).ret

\* Lines 642-648: update_file on the new branch; a commit to the base branch
\* would replace the file there.
PrCommit(p) ==
    /\ cpc[p] = "commit"
    /\ \E ok \in BOOLEAN :
         IF ok
         THEN /\ writes' = [writes EXCEPT ![p] = Append(@,
                                [op |-> "update_file", branch |-> commit_branch(p)])]
              /\ repo_files' = IF commit_branch(p) = GITHUB_BRANCH
                               THEN [repo_files EXCEPT ![manifest_path(p)] = fixed_content(p)]
                               ELSE repo_files
              /\ cpc' = [cpc EXCEPT ![p] = "pull"]
              /\ UNCHANGED pr_url
         ELSE PrExcept(p) /\ UNCHANGED <<writes, repo_files>>
    /\ UNCHANGED <<pod_name, pr_instructions, branch_name, began_after,
                   pulls_seen, refs, pulls, clock, patchVars,
                   parseVars, handlerVars>>

\* Lines 651-659: create_pull and the return of its URL.
PrPull(p) ==
    /\ cpc[p] = "pull"
    /\ \E ok \in BOOLEAN :
         IF ok
         THEN /\ pulls' = <<[head |-> branch_name[p], url |-> Len(pulls) + 1,
                             open |-> TRUE, by |-> p]>> \o pulls
              /\ writes' = [writes EXCEPT ![p] = Append(@,
                                [op |-> "create_pull", branch |-> branch_name[p]])]
              /\ PrReturn(p, Url(Len(pulls) + 1))
         ELSE PrExcept(p) /\ UNCHANGED <<pulls, writes>>
    /\ UNCHANGED <<pod_name, pr_instructions, branch_name, began_after,
                   pulls_seen, repo_files, refs, clock, patchVars, parseVars,
                   handlerVars>>

\* A second passes.
Tick ==
    /\ clock < MaxClock
    /\ clock' = clock + 1
    /\ UNCHANGED <<repo_files, refs, pulls, writes, prVars, patchVars, parseVars,
                   handlerVars>>

\* Somebody closes or merges an open review request.
ClosePull ==
    /\ \E i \in 1..Len(pulls) :
         /\ pulls[i].open
         /\ pulls' = [pulls EXCEPT ![i].open = FALSE]
    /\ UNCHANGED <<repo_files, refs, writes, clock, prVars, patchVars, parseVars,
                   handlerVars>>

-----------------------------------------------------------------------------
(* handle_alert *)

\* A dict of the fields of f that are not Absent.
Record(f) == Map([k \in {x \in DOMAIN f : f[x] # Absent} |-> f[k]])

Alert(labels) == Map([status |-> Str(<<"firing">>), labels |-> labels])

AlertBatches ==
    { <<>>,
      <<Alert(Map([alertname |-> Str(<<"ImagePullBackOff">>),
                   pod |-> Str(<<"api", "-7f">>)]))>>,
      <<Alert(Map([alertname |-> Str(<<"PodCrash">>)]))>> }

\* alerts[0].get("labels", {}).get("pod", "unknown")
pod_of(batch) ==
    Get(Get(batch[1], "labels", EmptyDict), "pod", Str(<<"unknown">>)).str

NoResponseText == Text(<<W("No response from Ollama.")>>)
RequestFailedText == Text(<<W("Ollama request failed")>>)

DescribedOp(description) ==
    Record([type |-> T("update_image"), path |-> P(<<"0">>), value |-> GoodImage,
            description |-> description])

\* The plans a model may write, field by field.
ModelPlans ==
    { Record([problem_type |-> pt, problem_analysis |-> pa,
              validation_required |-> IF vd = Absent THEN Absent ELSE Bool(TRUE),
              validation_type |-> IF vd = Absent THEN Absent ELSE Str(<<"image_check">>),
              validation_data |-> vd, changes |-> ch, requires_pr |-> rp]) :
        pt \in {Absent, Str(<<"image_pull_backoff">>), Num(5)},
        pa \in {Absent, Str(<<"The image tag does not exist">>), Num(5)},
        vd \in {Absent, Map([image |-> GoodImage]), GoodImage},
        ch \in {Absent, List(<<>>), List(<<DescribedOp(Str(<<"Use nginx 1.21">>))>>),
                List(<<DescribedOp(Num(5))>>)},
        rp \in {Bool(TRUE), Bool(FALSE)} }

\* What the "response" field of the model's answer holds.
ModelReplies ==
    {Text(<<J(v)>>) : v \in ModelPlans}
    \cup {Text(<<Mk("fence_open"), J(v), Mk("fence_close")>>) :
            v \in {List(<<Num(1)>>), List(<<>>), Str(<<"abc">>), None}}
    \cup {Text(<<W(w)>>) : w \in Words}
    \cup {Text(<<>>), None, Num(5)}

\* bool(rca)
rca_truthy(text) == IF IsText(text) THEN text.text # <<>> ELSE Truthy(text)

\* Lines 1040-1061 raise: the .get calls on instructions, len() and the
\* loop over its changes, .get on validation_data.
process_faults(ins) ==
    /\ Truthy(ins)
    /\ \/ ~IsDict(ins)
       \/ /\ IsDict(ins)
          /\ LET ch == Get(ins, "changes", List(<<>>))
                 vd == Get(ins, "validation_data", EmptyDict)
             IN  \/ iterate(ch).exc # "none"                      \* len(), enumerate()
                 \/ \E i \in 1..Len(iterate(ch).ret) : ~IsDict(iterate(ch).ret[i])
                 \/ /\ Truthy(Get(ins, "validation_required", None))
                    /\ Get(ins, "validation_type", None) = Str(<<"image_check">>)
                    /\ ~IsDict(vd)

\* Lines 1050-1053: validate_image_exists is called (it never raises).
validates(ins) ==
    /\ Truthy(ins)
    /\ Truthy(Get(ins, "validation_required", None))
    /\ Get(ins, "validation_type", None) = Str(<<"image_check">>)
    /\ Truthy(Get(Get(ins, "validation_data", EmptyDict), "image", None))

\* A handler that asks for a review request whatever the instructions are.
wants_pr_always(ins) == TRUE

\* Line 1064
wants_pr(ins) ==
    Truthy(ins) /\ Truthy(Get(ins, "requires_pr", None))
                /\ Truthy(Get(ins, "changes", None))

\* compose_slack_alert_blocks raises.
compose_faults(ins, text) ==
    LET problem_type == IF Truthy(ins) THEN Get(ins, "problem_type", None)
                        ELSE Str(<<"other">>)
        analysis == Get(ins, "problem_analysis", None)
        ch == Get(ins, "changes", None)
    IN  \/ IsList(problem_type) \/ IsDict(problem_type)       \* problem_emojis.get
        \/ ~IsStr(problem_type)                               \* problem_type.replace
        \/ IF Truthy(ins) /\ Truthy(analysis) THEN ~IsStr(analysis)     \* .split
           ELSE rca_truthy(text) /\ ~IsText(text)                        \* .strip
        \/ /\ Truthy(ins) /\ Truthy(ch)
           /\ \/ ~IsList(ch)                                  \* instructions['changes'][0]
              \/ ~IsDict(ch.list[1])
              \/ LET d == Get(ch.list[1], "description", Str(<<>>))
                 IN  ~(IsStr(d) \/ IsList(d))                 \* [:100]

response_data(batch, ins, url) ==
    [status |-> "ok",
     pod_name |-> pod_of(batch),
     analysis_completed |-> ins # None,
     pr_created |-> url # None,
     pr_url |-> url,
     problem_type |-> IF Truthy(ins) THEN Get(ins, "problem_type", None) ELSE None]

\* Lines 782-795 and 1017-1022: the batch arrives.
HandleReceive ==
    /\ hpc = "receive"
    /\ IF alerts = <<>>
       THEN hpc' = "rejected" /\ http_response' = [status |-> "no alerts received"]
       ELSE hpc' = "ollama" /\ UNCHANGED http_response
    /\ UNCHANGED <<alerts, rca, validation_result, patchVars, parseVars, storeVars,
                   prVars>>

\* Lines 1025-1037: the model call fails, or answers without a response
\* field, or with one, which parse_ollama_instructions then parses; an
\* exception of the parser would land in the same except clause.
HandleOllama ==
    /\ hpc = "ollama"
    /\ \/ /\ rca' = RequestFailedText
          /\ UNCHANGED parseVars
       \/ \E reply \in ModelReplies \cup {NoResponseText} :
             LET r == parse_ollama_instructions(reply)
             IN  /\ ollama_response' = reply
                 /\ rca' = IF r.exc = "none" THEN reply ELSE RequestFailedText
                 /\ instructions' = IF r.exc = "none" THEN r.ret ELSE None
                 /\ ppc' = IF r.exc = "none" THEN "returned" ELSE "raised"
    /\ hpc' = "process"
    /\ UNCHANGED <<alerts, validation_result, http_response, patchVars, storeVars, prVars>>

\* Lines 1040-1061 and 1074-1080: the instructions are logged and validated.
HandleProcess ==
    /\ hpc = "process"
    /\ IF process_faults(instructions)
       THEN hpc' = "faulted" /\ UNCHANGED validation_result
       ELSE /\ validation_result' = IF validates(instructions)
                                    THEN Str(<<"Image validation">>) ELSE None
            /\ hpc' = IF wants_pr(instructions) THEN "pr" ELSE "compose"
    /\ UNCHANGED <<alerts, rca, http_response, patchVars, parseVars, storeVars, prVars>>

\* Line 1066: create_fix_pr(pod_name, instructions, rca), run as execution 1.
HandlePr ==
    /\ hpc = "pr"
    /\ PrEnter(1, pod_of(alerts), instructions)
    /\ hpc' = "pr_wait"
    /\ UNCHANGED <<alerts, rca, validation_result, http_response, patchVars, parseVars>>

\* Lines 1083-1109: compose the blocks, post them (a failure is logged),
\* return the summary.
HandleNotify ==
    /\ \/ hpc = "compose"
       \/ hpc = "pr_wait" /\ cpc[1] = "returned"
    /\ IF compose_faults(instructions, rca)
       THEN hpc' = "faulted" /\ UNCHANGED http_response
       ELSE /\ hpc' = "responded"
            /\ http_response' = response_data(alerts, instructions, pr_url[1])
    /\ UNCHANGED <<alerts, rca, validation_result, patchVars, parseVars, storeVars,
                   prVars>>

-----------------------------------------------------------------------------
(* Initial states and specifications *)

PatchIdle ==
    /\ manifests = <<>>
    /\ sel = 0
    /\ container_path = <<>>
    /\ changes = <<>>
    /\ trail = <<>>
    /\ apc = "call"
    /\ exc = "none"
    /\ updated_yaml = <<>>

ParseIdle ==
    /\ ollama_response = None
    /\ instructions = None
    /\ ppc = "idle"

HandlerIdle ==
    /\ hpc = "idle"
    /\ alerts = <<>>
    /\ rca = NoResponseText
    /\ validation_result = None
    /\ http_response = None

StoreIdle ==
    /\ repo_files = [path \in ManifestPaths |-> <<>>]
    /\ refs = {}
    /\ pulls = <<>>
    /\ writes = [p \in Procs |-> <<>>]
    /\ clock = 0

PrIdle ==
    /\ cpc = [p \in Procs |-> "idle"]
    /\ pod_name = [p \in Procs |-> <<>>]
    /\ pr_instructions = [p \in Procs |-> None]
    /\ branch_name = [p \in Procs |-> <<>>]
    /\ pr_url = [p \in Procs |-> None]
    /\ began_after = [p \in Procs |-> {}]
    /\ pulls_seen = [p \in Procs |-> {}]

\* Many ChangeOps against one Deployment.
InitPatch ==
    /\ ParseIdle
    /\ HandlerIdle
    /\ StoreIdle
    /\ PrIdle
    /\ yaml_content \in PatchYaml
    /\ target_manifest_name = NoTarget
    /\ opPool = AllOps
    /\ PatchIdle

\* Many YAML texts and target names, few ChangeOps.
InitManifest ==
    /\ ParseIdle
    /\ HandlerIdle
    /\ StoreIdle
    /\ PrIdle
    /\ yaml_content \in AllYaml(MaxDocs)
    /\ target_manifest_name \in {NoTarget, "a", "b"}
    /\ opPool = FewOps
    /\ PatchIdle

InitParse ==
    /\ ollama_response \in Responses(MaxSegs)
    /\ instructions = None
    /\ ppc = "call"
    /\ yaml_content = <<>>
    /\ target_manifest_name = NoTarget
    /\ opPool = {}
    /\ PatchIdle
    /\ StoreIdle
    /\ PrIdle
    /\ HandlerIdle

\* A review request opened for pod api-7f at second 0.
EarlierPull ==
    [head |-> BranchName(<<"api", "-7f">>, 0), url |-> 1, open |-> TRUE, by |-> 0]

\* The executions of create_fix_pr against a store that holds the manifest
\* files and one earlier review request.
InitPublish ==
    /\ repo_files = RepoFiles
    /\ refs = {[name |-> EarlierPull.head, by |-> 0]}
    /\ pulls = <<EarlierPull>>
    /\ writes = [p \in Procs |-> <<>>]
    /\ clock = 1
    /\ PrIdle
    /\ ParseIdle
    /\ HandlerIdle
    /\ yaml_content = <<>>
    /\ target_manifest_name = NoTarget
    /\ opPool = {}
    /\ PatchIdle

\* One request to /alerts, against a store with or without the earlier
\* review request.
InitHandler ==
    /\ hpc = "receive"
    /\ alerts \in AlertBatches
    /\ rca = NoResponseText
    /\ validation_result = None
    /\ http_response = None
    /\ ParseIdle
    /\ repo_files = RepoFiles
    /\ \/ refs = {} /\ pulls = <<>>
       \/ refs = {[name |-> EarlierPull.head, by |-> 0]} /\ pulls = <<EarlierPull>>
    /\ writes = [p \in Procs |-> <<>>]
    /\ clock = 1
    /\ PrIdle
    /\ yaml_content = <<>>
    /\ target_manifest_name = NoTarget
    /\ opPool = {}
    /\ PatchIdle

NextPatch == PatchCall \/ PatchChange \/ PatchReturn

SpecPatch == InitPatch /\ [][NextPatch]_vars

SpecManifest == InitManifest /\ [][NextPatch]_vars

NextParse == ParseCall

SpecParse == InitParse /\ [][NextParse]_vars

NextPublish ==
    \/ \E p \in Procs : PrRead(p) \/ PrCheck(p) \/ PrBranch(p) \/ PrCommit(p) \/ PrPull(p)
    \/ Tick
    \/ ClosePull

SpecPublish == InitPublish /\ [][NextPublish]_vars

NextHandler ==
    \/ HandleReceive
    \/ HandleOllama
    \/ HandleProcess
    \/ HandlePr
    \/ PrCheck(1) \/ PrBranch(1) \/ PrCommit(1) \/ PrPull(1)
    \/ HandleNotify

SpecHandler == InitHandler /\ [][NextHandler]_vars

\* Every call of the handler is blocking and bounded by a timeout: a step
\* that can be taken is taken.
SpecHandlerLive == SpecHandler /\ WF_vars(NextHandler)

-----------------------------------------------------------------------------
(* Properties of apply_manifest_changes *)

\* The located container list of a call that reached the loop.
Located == manifests[sel][FieldOf(container_path)].list

IsOpOfType(change, name) ==
    IsDict(change) /\ Get(change, "type", None) = Str(<<name>>)

\* The op at position i was carried out on a container.
Carried(i) == trail[i].exc = "none" /\ trail[i].idx # -1

\* C6: apply_manifest_changes never raises because of an individual ChangeOp:
\* once the container list is located and the loop over the ops has begun,
\* the call does not end in an exception.
C6_NeverRaisesOnAnOp == apc = "raised" => changes = <<>>

\* A path as the data model types it: missing, or a list of str tokens.
WellTypedPath(path) ==
    \/ path = Absent
    \/ IsList(path) /\ \A j \in 1..Len(path.list) : IsStr(path.list[j])

\* The index the rule of the claim gives: token 0 when it is a string of
\* decimal digits that names an index below n, and 0 otherwise.
RuleIndex(path, n) ==
    IF /\ path # Absent
       /\ Len(path.list) > 0
       /\ Len(path.list[1].str) > 0
       /\ \A j \in 1..Len(path.list[1].str) : path.list[1].str[j] \in DigitAtoms
       /\ int(path.list[1].str) < n
    THEN int(path.list[1].str)
    ELSE 0

\* C7: every resolved container index lies in [0, len(containers)); for a
\* path that is missing or a list of str tokens the resolution succeeds and
\* gives token 0 when that is a digit string naming an in-range index and 0
\* otherwise; no op ends in an out-of-range fault.
C7_IndexClamped ==
    \A i \in 1..Len(trail) :
        /\ trail[i].exc # "IndexError"
        /\ trail[i].idx # -1 => trail[i].idx \in 0..(Len(Located) - 1)
        /\ (IsDict(changes[i]) /\ WellTypedPath(Get(changes[i], "path", Absent)))
              => trail[i].idx = RuleIndex(Get(changes[i], "path", Absent), Len(Located))

\* Path ["5"] against two containers resolved to 0 and path ["1"] to 1.
C7_Witness ==
    /\ apc = "done"
    /\ Len(changes) = 2
    /\ Len(Located) = 2
    /\ Get(changes[1], "path", Absent) = P(<<"5">>) /\ trail[1].idx = 0
    /\ Get(changes[2], "path", Absent) = P(<<"1">>) /\ trail[2].idx = 1

\* C8: after an update_image op is carried out, the image of the target
\* container is a repository:tag string that passes the format checks of
\* validate_image_exists.
C8_ImageIsRepositoryTag ==
    \A i \in 1..Len(trail) :
        (IsOpOfType(changes[i], "update_image") /\ Carried(i))
            => image_format_valid(trail[i].after.image)

\* None of the recognized keys: no image, no name, no repository with tag, no
\* repo with tag.
NoRecognizedKey(value) ==
    /\ ~HasKey(value, "image")
    /\ ~HasKey(value, "name")
    /\ ~(HasKey(value, "repository") /\ HasKey(value, "tag"))
    /\ ~(HasKey(value, "repo") /\ HasKey(value, "tag"))

UnrecognizedImageOp(change) ==
    /\ IsOpOfType(change, "update_image")
    /\ HasKey(change, "value")
    /\ IsDict(Item(change, "value"))
    /\ NoRecognizedKey(Item(change, "value"))

\* C9: an update_image op whose value is a map with none of the recognized
\* keys sets the image of the target container to nginx:latest.
C9_UnrecognizedMapGivesFallback ==
    \A i \in 1..Len(trail) :
        UnrecognizedImageOp(changes[i])
            => /\ Carried(i)
               /\ trail[i].after.image = Str(NGINX_LATEST)

\* A map holding only a tag was applied and the call returned.
C9_Witness ==
    /\ apc = "done"
    /\ \E i \in 1..Len(trail) :
          /\ UnrecognizedImageOp(changes[i])
          /\ Item(changes[i], "value") = Map([tag |-> Str(<<"1.21">>)])
          /\ updated_yaml[1].tmpl.list[trail[i].idx + 1].image = Str(NGINX_LATEST)

\* The number of containers under each container path of a document.
Counts(d) ==
    [f \in {"tmpl", "pod", "cron"} |-> IF d[f] = Absent THEN -1 ELSE Len(d[f].list)]

SameShape(out, in) ==
    /\ Len(out) = Len(in)
    /\ \A i \in 1..Len(in) :
          /\ out[i].kind = in[i].kind
          /\ out[i].name = in[i].name
          /\ Counts(out[i]) = Counts(in[i])

\* The call has ended without having been given a ChangeOp.
EndedWithoutOps == apc \in {"done", "raised"} /\ changes = <<>>

\* C10 as stated: applying no ChangeOp to any N-document manifest (N >= 1)
\* succeeds and yields N documents in order with the same kinds, names and
\* container counts.
C10_EmptyPlanAlwaysSucceeds ==
    (EndedWithoutOps /\ Len(yaml_content) >= 1)
        => apc = "done" /\ SameShape(updated_yaml, yaml_content)

\* The selected document: the first one named as the target, or the first.
Selected(docs, target) ==
    IF target = NoTarget THEN {1}
    ELSE {i \in 1..Len(docs) :
            docs[i].name = target /\ \A j \in 1..(i - 1) : docs[j].name # target}

\* A non-empty container list is located in document d: the list under the
\* path of its kind when there is a list there, else any non-empty list under
\* a fallback path.
KindField(d) ==
    CASE d.kind \in {"Deployment", "DaemonSet", "StatefulSet", "ReplicaSet", "Job"} -> "tmpl"
      [] d.kind = "Pod" -> "pod"
      [] d.kind = "CronJob" -> "cron"
      [] OTHER -> "none"

HasLocatableContainers(d) ==
    IF KindField(d) # "none" /\ d[KindField(d)] # Absent
    THEN Len(d[KindField(d)].list) > 0
    ELSE \E f \in {"tmpl", "pod", "cron"} : d[f] # Absent /\ Len(d[f].list) > 0

\* C10 amended: applying no ChangeOp to an N-document manifest (N >= 1)
\* succeeds, and yields N documents in order with the same kinds, names and
\* container counts, exactly when a non-empty container list is located in
\* the selected document; otherwise the call raises ValueError.
C10_EmptyPlanKeepsShape ==
    (EndedWithoutOps /\ Len(yaml_content) >= 1)
        => IF \E i \in Selected(yaml_content, target_manifest_name) :
                  HasLocatableContainers(yaml_content[i])
           THEN apc = "done" /\ SameShape(updated_yaml, yaml_content)
           ELSE apc = "raised" /\ exc = "ValueError"

\* A Deployment followed by a Service came back as two documents.
C10_Witness ==
    /\ apc = "done"
    /\ changes = <<>>
    /\ Len(yaml_content) = 2
    /\ yaml_content[1].kind = "Deployment"
    /\ yaml_content[2].kind = "Service"
    /\ Len(updated_yaml) = 2

\* The positions (from 1) of the containers the ops carried out addressed.
Addressed == {trail[j].idx + 1 : j \in 1..Len(trail)}

\* Document `after` is document `before` but for the containers at the
\* addressed positions of its container lists.
OnlyAddressedDiffer(before, after) ==
    /\ after.kind = before.kind
    /\ after.name = before.name
    /\ \A f \in {"tmpl", "pod", "cron"} :
          IF before[f] = Absent THEN after[f] = Absent
          ELSE /\ after[f] # Absent
               /\ Len(after[f].list) = Len(before[f].list)
               /\ \A k \in 1..Len(before[f].list) :
                     k \notin Addressed => after[f].list[k] = before[f].list[k]

\* C11: a call that returns changed only containers of the selected document
\* (the first one named as the target, else the first document): every other
\* document comes back unchanged at its position, and in the selected
\* document only the containers at the ops' resolved indexes differ.
C11_OnlySelectedContainersChange ==
    apc = "done" =>
        /\ Len(updated_yaml) = Len(yaml_content)
        /\ \A i \in 1..Len(yaml_content) :
              IF i \in Selected(yaml_content, target_manifest_name)
              THEN OnlyAddressedDiffer(yaml_content[i], updated_yaml[i])
              ELSE updated_yaml[i] = yaml_content[i]

\* The second of two documents was the target and one of its two containers
\* was patched; its other container and the first document, which has
\* containers too, came back as they were.
C11_Witness ==
    /\ apc = "done"
    /\ Len(yaml_content) = 2
    /\ Selected(yaml_content, target_manifest_name) = {2}
    /\ HasLocatableContainers(yaml_content[1])
    /\ updated_yaml[1] = yaml_content[1]
    /\ Addressed = {2}
    /\ yaml_content[2].tmpl # Absent
    /\ Len(yaml_content[2].tmpl.list) = 2
    /\ updated_yaml[2].tmpl.list[2] # yaml_content[2].tmpl.list[2]
    /\ updated_yaml[2].tmpl.list[1] = yaml_content[2].tmpl.list[1]

KnownTypes ==
    {"update_image", "update_command", "update_args", "update_readiness_probe",
     "update_liveness_probe", "add_env_var", "update_ports"}

\* The ops apply_manifest_changes rejects: a probe that is no map, an
\* environment variable that is no map holding both name and value, ports
\* that are no sequence, and an unknown type.
Rejected(change) ==
    /\ IsDict(change)
    /\ LET value == Get(change, "value", None) IN
       \/ /\ \/ IsOpOfType(change, "update_readiness_probe")
             \/ IsOpOfType(change, "update_liveness_probe")
          /\ ~IsDict(value)
       \/ /\ IsOpOfType(change, "add_env_var")
          /\ ~(IsDict(value) /\ HasKey(value, "name") /\ HasKey(value, "value"))
       \/ IsOpOfType(change, "update_ports") /\ ~IsList(value)
       \/ \A ty \in KnownTypes : ~IsOpOfType(change, ty)

\* C17: a ChangeOp that is rejected leaves the container it addressed
\* exactly as it was before the op: no field is added, removed or changed.
C17_RejectedOpChangesNothing ==
    \A i \in 1..Len(trail) :
        (Carried(i) /\ Rejected(changes[i])) => trail[i].after = trail[i].before

\* C19: find_containers_in_manifest, applied to the selected document,
\* returns a non-empty container list with the path that leads to it in the
\* document, or (None, None); never an empty list, whatever the kind.
C19_LocatorNeverReturnsEmpty ==
    apc # "call" =>
        \A i \in Selected(yaml_content, target_manifest_name) :
            i <= Len(yaml_content) =>
                LET r == find_containers_in_manifest(yaml_content[i]) IN
                \/ r = NotFound
                \/ /\ IsList(r.containers)
                   /\ Len(r.containers.list) > 0
                   /\ r.path \in {TmplPath, PodPath, CronPath}
                   /\ yaml_content[i][FieldOf(r.path)] = r.containers

-----------------------------------------------------------------------------
(* Properties of parse_ollama_instructions *)

\* C1: parse_ollama_instructions never raises to its caller: whatever the
\* input (a text, None, a number), the call ends by returning an instruction
\* or None, also when the structural parse fails and when the heuristic
\* fallback itself faults.
C1_ParserNeverRaises == ppc # "raised"

\* C1 witness: both the try block and the fallback faulted (the input is not
\* a str) and the call returned None.
C1_Witness ==
    /\ ppc = "returned"
    /\ parse_try(ollama_response).exc # "none"
    /\ fallback_try(ollama_response).exc # "none"
    /\ instructions = None

\* C2: every instruction the parser returns, other than None, is a map that
\* holds both problem_type and requires_pr.
C2_ReturnedInstructionIsValid ==
    (ppc = "returned" /\ instructions # None)
        => validate_instructions_structure(instructions)

Taxonomy ==
    {"image_pull_backoff", "readiness_probe_failure", "liveness_probe_failure",
     "command_failure", "other"}

\* C3: a text with no "{" followed later by "}" makes the parser return an
\* instruction, not None, whose problem_type is one of the five taxonomy
\* values, and the call does not raise.
C3_NoBraceTextGivesTaxonomy ==
    (/\ ppc # "call"
     /\ IsText(ollama_response)
     /\ brace_region(ollama_response.text) = <<>>)
        => /\ ppc = "returned"
           /\ IsDict(instructions)
           /\ HasKey(instructions, "problem_type")
           /\ \E ty \in Taxonomy : Item(instructions, "problem_type") = Str(<<ty>>)

\* The text holds no fenced block and no "{" with a "}" at or after it.
PlainProse(segs) ==
    /\ ~\E i, j \in 1..Len(segs) :
           i < j /\ IsMark(segs[i], "fence_open") /\ IsMark(segs[j], "fence_close")
    /\ ~\E i, j \in 1..Len(segs) :
           i <= j /\ OpensBrace(segs[i]) /\ ClosesBrace(segs[j])

Mentions(segs, words) == \E i \in 1..Len(segs) : IsWord(segs[i]) /\ segs[i].w \in words

\* The known-good images of extract_suggested_image_from_text.
KnownGoodImages ==
    { Str(<<"nginx", ":", "1.21">>), Str(<<"httpd", ":", "2.4">>),
      Str(<<"python", ":", "3.9-slim">>), Str(<<"node", ":", "16-alpine">>),
      Str(<<"openjdk", ":", "11-jre-slim">>), Str(<<"nginx", ":", "latest">>) }

\* C14: for a text without fenced block and without brace region that holds
\* an image-pull phrase, the parser returns an instruction of problem_type
\* image_pull_backoff with requires_pr true and exactly one ChangeOp, an
\* update_image with path ["0"] whose value is a repository:tag of the
\* known-good table: nginx:1.21 when the text mentions nginx, nginx:latest
\* when no keyword of the table occurs.
C14_ImagePullHeuristic ==
    (/\ ppc # "call"
     /\ IsText(ollama_response)
     /\ PlainProse(ollama_response.text)
     /\ Mentions(ollama_response.text, {"ErrImagePull"}))
        => /\ ppc = "returned"
           /\ IsDict(instructions)
           /\ Get(instructions, "problem_type", None) = Str(<<"image_pull_backoff">>)
           /\ Get(instructions, "requires_pr", None) = Bool(TRUE)
           /\ IsList(Get(instructions, "changes", None))
           /\ Len(Item(instructions, "changes").list) = 1
           /\ LET op == Item(instructions, "changes").list[1]
                  value == Get(op, "value", None)
              IN  /\ IsDict(op)
                  /\ Get(op, "type", None) = Str(<<"update_image">>)
                  /\ Get(op, "path", None) = List(<<Str(<<"0">>)>>)
                  /\ value \in KnownGoodImages
                  /\ image_format_valid(value)
                  /\ Mentions(ollama_response.text, {"nginx"})
                        => value = Str(<<"nginx", ":", "1.21">>)
                  /\ ~Mentions(ollama_response.text, {"nginx", "httpd"})
                        => value = Str(<<"nginx", ":", "latest">>)

\* "ErrImagePull nginx" gave nginx:1.21.
C14_Witness ==
    /\ ppc = "returned"
    /\ IsText(ollama_response)
    /\ ollama_response.text = <<W("ErrImagePull"), W("nginx")>>
    /\ Item(instructions, "changes").list[1].map.value = Str(<<"nginx", ":", "1.21">>)

\* The image the four probes give for a map, in their priority order, and
\* nginx:latest when none matches or the result is no string with a colon.
ProbedImage(value) ==
    LET probed ==
            IF HasKey(value, "image") THEN Item(value, "image")
            ELSE IF HasKey(value, "name") THEN Item(value, "name")
            ELSE IF HasKey(value, "repository") /\ HasKey(value, "tag")
            THEN Str(Repr(Item(value, "repository")) \o <<":">> \o Repr(Item(value, "tag")))
            ELSE IF HasKey(value, "repo") /\ HasKey(value, "tag")
            THEN Str(Repr(Item(value, "repo")) \o <<":">> \o Repr(Item(value, "tag")))
            ELSE Str(<<"nginx", ":", "latest">>)
    IN  IF IsStr(probed) /\ HasAtom(probed.str, ":") THEN probed
        ELSE Str(<<"nginx", ":", "latest">>)

\* The response is one JSON document, a plan whose changes are ops that hold
\* a value.
IsPlanText(response) ==
    /\ IsText(response)
    /\ Len(response.text) = 1
    /\ IsJson(response.text[1])
    /\ response.text[1].style = "json"
    /\ LET plan == response.text[1].json IN
       /\ IsDict(plan)
       /\ HasKey(plan, "changes")
       /\ IsList(Item(plan, "changes"))
       /\ \A i \in 1..Len(Item(plan, "changes").list) :
             /\ IsDict(Item(plan, "changes").list[i])
             /\ HasKey(Item(plan, "changes").list[i], "value")

\* C18: after a successful structural parse, every update_image ChangeOp
\* whose value is a map gets the value of the four probes (image, name,
\* repository+tag, repo+tag), nginx:latest when none matches or the result
\* is no string with a colon: the value PatchEngine gives for that map.
C18_ParserProbesLikePatchEngine ==
    (ppc = "returned" /\ IsPlanText(ollama_response))
        => LET ops == Item(ollama_response.text[1].json, "changes").list IN
           /\ IsDict(instructions)
           /\ IsList(Get(instructions, "changes", None))
           /\ Len(Item(instructions, "changes").list) = Len(ops)
           /\ \A i \in 1..Len(ops) :
                 (IsOpOfType(ops[i], "update_image") /\ IsDict(Get(ops[i], "value", None)))
                     => /\ Get(Item(instructions, "changes").list[i], "value", None)
                              = ProbedImage(Item(ops[i], "value"))
                        /\ Get(Item(instructions, "changes").list[i], "value", None)
                              = patched_image(Item(ops[i], "value"))

CategoryOrder ==
    <<"image_pull_backoff", "readiness_probe_failure", "liveness_probe_failure",
      "command_failure">>

\* The categories one of whose phrases occurs in a word of the prose, once
\* lower-cased ("probe failed" is a readiness phrase).
WordCategories(word) ==
    CASE word = "ErrImagePull" -> {"image_pull_backoff"}
      [] word = "Readiness probe failed" -> {"readiness_probe_failure"}
      [] word = "Liveness probe failed" ->
            {"readiness_probe_failure", "liveness_probe_failure"}
      [] word = "exit code" -> {"command_failure"}
      [] OTHER -> {}

\* The earliest category in the fixed order that has a phrase in the text.
EarliestCategory(segs) ==
    LET cats == UNION {WordCategories(segs[i].w) : i \in {j \in 1..Len(segs) : IsWord(segs[j])}}
        at == {k \in 1..Len(CategoryOrder) : CategoryOrder[k] \in cats}
    IN  IF at = {} THEN "other" ELSE CategoryOrder[Min(at)]

\* The instruction is the product of heuristic extraction from a text of
\* words and marks.
HeuristicResult ==
    /\ ppc = "returned"
    /\ IsText(ollama_response)
    /\ \A i \in 1..Len(ollama_response.text) : ~IsJson(ollama_response.text[i])
    /\ IsDict(instructions)
    /\ Get(instructions, "problem_analysis", None)
          = Str(<<"Fallback analysis - JSON parsing failed">>)

\* C20: heuristic extraction gives the problem_type of the first category,
\* in the order image_pull_backoff, readiness_probe_failure,
\* liveness_probe_failure, command_failure, that has a phrase in the
\* lower-cased text, and other when no category has one.
C20_EarliestCategoryWins ==
    HeuristicResult
        => Get(instructions, "problem_type", None)
              = Str(<<EarliestCategory(ollama_response.text)>>)

\* "exit code" before "ErrImagePull" in the text: image_pull_backoff.
C20_Witness ==
    /\ HeuristicResult
    /\ ollama_response.text = <<W("exit code"), W("ErrImagePull")>>
    /\ Item(instructions, "problem_type") = Str(<<"image_pull_backoff">>)

-----------------------------------------------------------------------------
(* Properties of create_fix_pr *)

Category(ins) == Get(ins, "problem_type", Str(<<"other">>))

IsOpenUrl(u) == \E i \in 1..Len(pulls) : pulls[i].open /\ Url(pulls[i].url) = u

\* The fix branches made for a pod: fix/<pod>-<timestamp>.
FixBranches(pod) ==
    {r \in refs : \E ts \in 0..MaxClock : r.name = BranchName(pod, ts)}

\* Execution q was invoked after execution p had returned, for the same pod
\* and problem category; they are the only invocations; p returned a URL
\* and that review request is still open when q has returned.
InSuccession(p, q) ==
    /\ p # q
    /\ cpc[q] = "returned"
    /\ p \in began_after[q]
    /\ \A r \in Procs \ {p, q} : cpc[r] = "idle"
    /\ pod_name[p] = pod_name[q]
    /\ IsDict(pr_instructions[p]) /\ IsDict(pr_instructions[q])
    /\ Category(pr_instructions[p]) = Category(pr_instructions[q])
    /\ pr_url[p] # None
    /\ IsOpenUrl(pr_url[p])

OpenBy(p) == {i \in 1..Len(pulls) : pulls[i].open /\ pulls[i].by = p}

\* Executions p and q, for the same pod and problem category, have each an
\* open review request of their own in the store.
Doubled(p, q) ==
    /\ p # q
    /\ OpenBy(p) # {}
    /\ OpenBy(q) # {}
    /\ pod_name[p] = pod_name[q]
    /\ Category(pr_instructions[p]) = Category(pr_instructions[q])

\* C12: the existence check and the creation are not atomic.  Two open
\* review requests of two executions for the same pod and category are in
\* the store only when each execution passed its existence check before the
\* other had opened its request: neither listing held the other's request,
\* and neither execution began after the other had returned.
C12_DoubledOnlyByTheRace ==
    \A p, q \in Procs :
        Doubled(p, q)
            => /\ \A i \in OpenBy(p) : pulls[i].url \notin pulls_seen[q]
               /\ \A j \in OpenBy(q) : pulls[j].url \notin pulls_seen[p]
               /\ p \notin began_after[q]
               /\ q \notin began_after[p]

\* The race happened: two executions for one pod have returned two different
\* URLs of open review requests, and the store holds a fix branch of each.
C12_Witness ==
    \E p, q \in Procs :
        /\ Doubled(p, q)
        /\ cpc[p] = "returned" /\ cpc[q] = "returned"
        /\ IsOpenUrl(pr_url[p]) /\ IsOpenUrl(pr_url[q])
        /\ pr_url[p] # pr_url[q]
        /\ \E r, s \in FixBranches(pod_name[p]) : r.by = p /\ s.by = q /\ r.name # s.name
        /\ \A i \in OpenBy(p) \cup OpenBy(q) :
              startswith(pulls[i].head, branch_prefix(pod_name[p]))

\* The last write of execution p opened its review request.
OpenedOwn(p) ==
    /\ writes[p] # <<>>
    /\ writes[p][Len(writes[p])].op = "create_pull"

\* The step of execution p (if this is one) ends as the claim says: not in
\* an exception; when it returns, with the URL of the review request the
\* step itself opened on the execution's branch, or with the URL the
\* existence check found, or with None; and with None when the store
\* operation of the branch, commit or review-request stage did not happen.
EndsAsStated(p) ==
    cpc'[p] # cpc[p]
        => /\ cpc'[p] # "raised"
           /\ cpc'[p] = "returned"
                 => CASE cpc[p] = "pull" /\ pulls' # pulls ->
                            /\ Len(pulls') = Len(pulls) + 1
                            /\ pulls'[1].head = branch_name[p]
                            /\ pulls'[1].open
                            /\ \A i \in 1..Len(pulls) : pulls[i].url # pulls'[1].url
                            /\ pr_url'[p] = Url(pulls'[1].url)
                            /\ Len(writes[p]) = 2
                      [] cpc[p] = "check" ->
                            \/ pr_url'[p] = None
                            \/ \E i \in 1..Len(pulls) :
                                  /\ pulls[i].open
                                  /\ startswith(pulls[i].head, branch_prefix(pod_name[p]))
                                  /\ pr_url'[p] = Url(pulls[i].url)
                      [] OTHER -> pr_url'[p] = None
           /\ (cpc[p] \in {"branch", "commit", "pull"}
                  /\ <<refs, pulls, writes>>' = <<refs, pulls, writes>>)
                 => cpc'[p] = "returned" /\ pr_url'[p] = None

\* C15: create_fix_pr never raises to its caller; it returns the URL of the
\* review request it has just opened when every step succeeded, and None
\* when a step failed.
C15_ReturnsUrlOrNone == [][\A p \in Procs : EndsAsStated(p)]_vars

\* One execution returned the URL of the review request it opened, and
\* another, whose commit or review-request creation failed after it had made
\* its branch, returned None.
C15_Witness ==
    \E p, q \in Procs :
        /\ cpc[p] = "returned" /\ OpenedOwn(p)
        /\ \E i \in OpenBy(p) : pr_url[p] = Url(pulls[i].url)
        /\ cpc[q] = "returned" /\ writes[q] # <<>> /\ ~OpenedOwn(q)
        /\ pr_url[q] = None

\* The review request that was open before any execution began is open
\* still; its head branch fix/api-7f-0 starts with the prefix of both pods.
EarlierStillOpen == \E i \in 1..Len(pulls) : pulls[i] = EarlierPull

\* C16: whenever an open review request whose head branch starts with the
\* pod's fix-branch prefix exists, create_fix_pr returns its URL and writes
\* nothing to the store, also when the instruction has no changes, when the
\* manifest cannot be read and when the patch cannot be applied.
C16_ExistingRequestReturned ==
    \A p \in Procs :
        (cpc[p] = "returned" /\ EarlierStillOpen)
            => /\ pr_url[p] = Url(EarlierPull.url)
               /\ writes[p] = <<>>

\* The three writes of a complete execution on branch b, in order.
WriteOrder(b) ==
    << [op |-> "create_git_ref", branch |-> b],
       [op |-> "update_file", branch |-> b],
       [op |-> "create_pull", branch |-> b] >>

\* C21: the writes of every execution of create_fix_pr are, in this order,
\* the creation of its fix branch, the commit of the patched file to that
\* branch and the opening of the review request from it; no write goes to
\* the base branch, whose content stays what it was.
C21_BranchThenCommitThenRequest ==
    /\ repo_files = RepoFiles
    /\ \A r \in refs : r.name # GITHUB_BRANCH
    /\ \A p \in Procs :
          writes[p] # <<>>
              => /\ Len(writes[p]) <= 3
                 /\ writes[p] = SubSeq(WriteOrder(branch_name[p]), 1, Len(writes[p]))
                 /\ branch_name[p] # GITHUB_BRANCH
                 /\ startswith(branch_name[p], branch_prefix(pod_name[p]))
                 /\ \E r \in refs : r.name = branch_name[p] /\ r.by = p
                 /\ \A i \in OpenBy(p) :
                       pulls[i].head = branch_name[p] /\ Len(writes[p]) = 3

\* An execution made all three writes and its review request is open.
C21_Witness ==
    \E p \in Procs :
        /\ cpc[p] = "returned"
        /\ writes[p] = WriteOrder(branch_name[p])
        /\ OpenBy(p) # {}
        /\ repo_files = RepoFiles

\* C22: whenever create_fix_pr returns None the store is as it was before
\* the call: the execution has written nothing that remains, and no fix
\* branch it created is left without a review request, also when the commit
\* or the creation of the review request failed after the branch was made.
C22_NoneLeavesStoreAsBefore ==
    \A p \in Procs :
        (cpc[p] = "returned" /\ pr_url[p] = None)
            => /\ \A r \in refs : r.by # p
               /\ \A i \in 1..Len(pulls) : pulls[i].by # p

\* The head branch is a fix branch made for this pod: fix/<pod>-<timestamp>.
CreatedFor(head, pod) == \E ts \in 0..MaxClock : head = BranchName(pod, ts)

\* C23: the URL create_fix_pr returns for a pod belongs to a review request
\* created for that pod; the open request of another pod whose name begins
\* with this pod's name is not returned as its existing proposal.
C23_ReturnedUrlIsOwnPods ==
    \A p \in Procs :
        (cpc[p] = "returned" /\ pr_url[p] # None)
            => \E i \in 1..Len(pulls) :
                  /\ Url(pulls[i].url) = pr_url[p]
                  /\ CreatedFor(pulls[i].head, pod_name[p])

-----------------------------------------------------------------------------
(* Properties of handle_alert *)

\* C5: once handle_alert holds a non-empty alert batch, the execution
\* eventually returns the summary response, whatever the model answered and
\* whichever stage failed: no fault of a stage escapes the handler.
C5_EventuallyResponds == (hpc = "ollama") ~> (hpc = "responded")

\* The model call of this request raised (lines 1035-1037).
ModelCallFailed == hpc \notin {"receive", "rejected", "ollama"} /\ rca = RequestFailedText

\* After a failed model call: no instruction exists, create_fix_pr was not
\* invoked and wrote nothing, no stage faulted, and the response returned
\* reports no analysis, no review request and no problem type.
DegradedRun ==
    /\ instructions = None
    /\ cpc[1] = "idle"
    /\ writes[1] = <<>>
    /\ validation_result = None
    /\ hpc \in {"process", "compose", "responded"}
    /\ hpc = "responded"
          => /\ http_response.status = "ok"
             /\ http_response.analysis_completed = FALSE
             /\ http_response.pr_created = FALSE
             /\ http_response.pr_url = None
             /\ http_response.problem_type = None

\* C13: when the model call times out or fails, the request is not aborted:
\* the diagnosis is the failure text, no instruction exists and create_fix_pr
\* is never invoked, the notification stage is still reached and the
\* response reports analysis_completed false, pr_created false and no
\* problem type.
C13_ModelFailureDegrades ==
    /\ [](ModelCallFailed => DegradedRun)
    /\ ModelCallFailed ~> (hpc = "responded" /\ ModelCallFailed)

\* The alert of pod api-7f was answered after the model call had failed.
C13_Witness ==
    /\ ModelCallFailed
    /\ hpc = "responded"
    /\ http_response.pod_name = <<"api", "-7f">>
    /\ http_response.analysis_completed = FALSE
    /\ http_response.pr_created = FALSE
    /\ pulls # <<>>

=============================================================================
